---- MODULE Spec2Model ----
(***************************************************************************)
(* A model of rstcheck (src/rstcheck/__init__.py): the document checker    *)
(* check(), the traversal visitor CheckTranslator, the checkers and the    *)
(* top-level main().                                                       *)
(*                                                                         *)
(* Text is modelled as sequences of tokens (a token is a word, a digit, a  *)
(* space " " or a punctuation mark), a document as a sequence of lines.    *)
(* The build modelled is the one without Sphinx (SPHINX_INSTALLED false).  *)
(***************************************************************************)
EXTENDS Integers, Sequences, FiniteSets, TLC

\* ------------------------------------------------------------------ bounds
\* Largest number of blocks of a document built from the core blocks.
MaxBlocks == 2
\* Largest number of lines of a code fragment.
MaxCodeLen == 2
\* Largest number of blank lines that follow a code fragment.
MaxTrail == 2
\* Largest number of further files on main()'s command line.
MaxOther == 1
\* Largest number of lines of a text given to beginning_of_code_block alone.
MaxLines == 5

\* ------------------------------------------------------ program constants
SPHINX_INSTALLED == FALSE
SPHINX_CODE_BLOCK_DELTA == -1
\* The sentinel None, as an element of ignore["languages"].
None == "<None>"
\* The token RSTCHECK_COMMENT_RE matches at the start of a line.
RSTCHECK_COMMENT == ".. rstcheck:"

\* ----------------------------------------------------------------- strings
Digits == <<"0", "1", "2", "3", "4", "5", "6", "7", "8", "9">>
IsDigit(t) == \E i \in 1..10 : Digits[i] = t
DigitVal(t) == (CHOOSE i \in 1..10 : Digits[i] = t) - 1

\* str(n) of a natural number, as the external tools print line numbers.
RECURSIVE Format(_)
Format(n) ==
  IF n < 10 THEN <<Digits[n + 1]>>
  ELSE Format(n \div 10) \o <<Digits[(n % 10) + 1]>>

RECURSIVE DigitsValue(_)
DigitsValue(s) ==
  IF s = <<>> THEN 0
  ELSE 10 * DigitsValue(SubSeq(s, 1, Len(s) - 1)) + DigitVal(s[Len(s)])

StartsWith(s, p) == Len(s) >= Len(p) /\ SubSeq(s, 1, Len(p)) = p
DropN(s, n) == SubSeq(s, n + 1, Len(s))

RECURSIVE LStrip(_)
LStrip(s) == IF s # <<>> /\ s[1] = " " THEN LStrip(Tail(s)) ELSE s
RECURSIVE RStrip(_)
RStrip(s) ==
  IF s # <<>> /\ s[Len(s)] = " " THEN RStrip(SubSeq(s, 1, Len(s) - 1)) ELSE s
\* str.strip()
Strip(s) == RStrip(LStrip(s))
\* "if line.strip()": the line is not blank.
NonBlank(line) == Strip(line) # <<>>

\* The first position of token t in s, 0 when there is none.
IndexOf(s, t) ==
  IF \E i \in 1..Len(s) : s[i] = t
  THEN CHOOSE i \in 1..Len(s) : s[i] = t /\ \A j \in 1..(i - 1) : s[j] # t
  ELSE 0

\* str.split(sep, maxsplit): at most maxsplit cuts, so maxsplit + 1 parts.
RECURSIVE Split(_, _, _)
Split(s, sep, maxsplit) ==
  LET i == IndexOf(s, sep)
  IN IF maxsplit = 0 \/ i = 0 THEN <<s>>
     ELSE <<SubSeq(s, 1, i - 1)>> \o Split(DropN(s, i), sep, maxsplit - 1)
\* str.split(sep)
SplitAll(s, sep) == Split(s, sep, Len(s))

\* int(text): surrounding blanks are ignored, a sign is allowed, the rest
\* must be one or more digits; otherwise ValueError (ok = FALSE).
IntOf(field) ==
  LET t == Strip(field)
      body == IF t # <<>> /\ t[1] \in {"-", "+"} THEN Tail(t) ELSE t
  IN IF body # <<>> /\ \A i \in 1..Len(body) : IsDigit(body[i])
     THEN [ok |-> TRUE,
           val |-> IF t[1] = "-" THEN 0 - DigitsValue(body) ELSE DigitsValue(body)]
     ELSE [ok |-> FALSE, val |-> 0]

\* The string a token sequence spells, when it is one word or empty.
Text(s) == IF s = <<>> THEN "" ELSE IF Len(s) = 1 THEN s[1] ELSE "<words>"

\* re.search(regex, text) for a regex that is one literal word.
Search(regex, text) == \E i \in 1..Len(text) : text[i] = regex

Contains(s, x) == \E i \in 1..Len(s) : s[i] = x

\* ------------------------------------------- results of raising functions
Ok(line, msg) == [exc |-> "none", line |-> line, msg |-> msg]
Raise(e) == [exc |-> e, line |-> 0, msg |-> <<>>]

\* parse_gcc_style_error_message: (line_number, message), or the exception
\* that leaves the function.
parse_gcc_style_error_message(message, filename, has_column) ==
  LET colons == IF has_column THEN 2 ELSE 1
      prefix == <<filename, ":">>
  IN IF ~StartsWith(message, prefix) THEN Raise("ValueError")
     ELSE LET split_message == Split(DropN(message, Len(prefix)), ":", colons)
              line_number == IntOf(split_message[1])
          IN IF ~line_number.ok THEN Raise("ValueError")
             ELSE IF Len(split_message) < colons + 1 THEN Raise("IndexError")
             ELSE Ok(line_number.val, Strip(split_message[colons + 1]))

\* The languages of "ignore-language=<csv>": value.split(","), each stripped.
RECURSIVE StripEach(_)
StripEach(parts) ==
  IF parts = <<>> THEN <<>>
  ELSE <<Text(Strip(Head(parts)))>> \o StripEach(Tail(parts))

\* A scan that raises Error for a key other than ignore-language.
RECURSIVE find_ignored_languages_strict(_, _)
find_ignored_languages_strict(lines, index) ==
  IF index >= Len(lines) THEN [langs |-> <<>>, err |-> 0]
  ELSE LET line == lines[index + 1]
       IN IF ~StartsWith(line, <<RSTCHECK_COMMENT>>)
          THEN find_ignored_languages_strict(lines, index + 1)
          ELSE LET key_and_value == SplitAll(Strip(DropN(line, 1)), "=")
               IN IF Len(key_and_value) # 2 \/ key_and_value[1] # <<"ignore-language">>
                  THEN [langs |-> <<>>, err |-> index + 1]
                  ELSE LET here == StripEach(SplitAll(key_and_value[2], ","))
                           rest == find_ignored_languages_strict(lines, index + 1)
                       IN [langs |-> here \o rest.langs, err |-> rest.err]

\* A scan whose Error discards the languages yielded before it.
RECURSIVE find_ignored_languages_atomic(_, _)
find_ignored_languages_atomic(lines, index) ==
  IF index >= Len(lines) THEN [langs |-> <<>>, err |-> 0]
  ELSE LET line == lines[index + 1]
       IN IF ~StartsWith(line, <<RSTCHECK_COMMENT>>)
          THEN find_ignored_languages_atomic(lines, index + 1)
          ELSE LET key_and_value == SplitAll(Strip(DropN(line, 1)), "=")
               IN IF Len(key_and_value) # 2
                  THEN [langs |-> <<>>, err |-> index + 1]
                  ELSE LET here == IF key_and_value[1] = <<"ignore-language">>
                                   THEN StripEach(SplitAll(key_and_value[2], ","))
                                   ELSE <<>>
                           rest == find_ignored_languages_atomic(lines, index + 1)
                       IN [langs |-> IF rest.err # 0 THEN <<>> ELSE here \o rest.langs,
                           err |-> rest.err]

\* find_ignored_languages, from the line with enumerate() index `index` on:
\* the languages yielded, and the line number of the Error raised (0: none).
\* What is yielded before the Error is raised has already been yielded.
RECURSIVE find_ignored_languages_from(_, _)
find_ignored_languages_from(lines, index) ==
  IF index >= Len(lines) THEN [langs |-> <<>>, err |-> 0]
  ELSE LET line == lines[index + 1]
       IN IF ~StartsWith(line, <<RSTCHECK_COMMENT>>)
          THEN find_ignored_languages_from(lines, index + 1)
          ELSE LET key_and_value == SplitAll(Strip(DropN(line, 1)), "=")
               IN IF Len(key_and_value) # 2
                  THEN [langs |-> <<>>, err |-> index + 1]
                  ELSE LET here == IF key_and_value[1] = <<"ignore-language">>
                                   THEN StripEach(SplitAll(key_and_value[2], ","))
                                   ELSE <<>>
                           rest == find_ignored_languages_from(lines, index + 1)
                       IN [langs |-> here \o rest.langs, err |-> rest.err]

find_ignored_languages(lines) == find_ignored_languages_from(lines, 0)

\* beginning_of_code_block: the value returned, or the exception raised.
\* `lines` is full_contents.splitlines(); Python indexes it from 0.
beginning_of_code_block(node, line_number, lines, is_code_node) ==
  IF SPHINX_INSTALLED /\ ~is_code_node
  THEN LET delta == node.natts
           current_line_contents == DropN(lines, line_number)
           nonblank == {i \in 1..Len(current_line_contents) :
                          current_line_contents[i] # <<>>}
           blank_lines == IF nonblank = {} THEN 0
                          ELSE (CHOOSE i \in nonblank : \A j \in nonblank : i <= j) - 1
       IN [exc |-> "none",
           val |-> line_number + delta - 1 + blank_lines - 1 + SPHINX_CODE_BLOCK_DELTA]
  ELSE LET code_block_length == Len(node.rawsource)
           \* lines[line_number - 1]; IndexError is suppressed
           here == line_number >= 1 /\ line_number <= Len(lines)
                   /\ NonBlank(lines[line_number])
           \* for line_no in range(line_number, 1, -1): lines[line_no - 2]
           range == {v \in 2..line_number : TRUE}
           stops == {v \in range : v - 1 <= Len(lines) /\ NonBlank(lines[v - 1])}
           stop == IF stops = {} THEN 2
                   ELSE CHOOSE v \in stops : \A w \in stops : w <= v
           \* an index past the end, met before the loop stops
           overrun == \E v \in range : v > stop /\ v - 1 > Len(lines)
       IN IF here THEN [exc |-> "none", val |-> line_number - code_block_length + 1]
          ELSE IF range = {} THEN [exc |-> "UnboundLocalError", val |-> 0]
          ELSE IF overrun \/ (stops = {} /\ Len(lines) < 1)
               THEN [exc |-> "IndexError", val |-> 0]
          ELSE [exc |-> "none", val |-> stop - code_block_length]

\* --------------------------------------------------------------- documents
(***************************************************************************)
(* A document is a sequence of blocks; a block is a record                 *)
(*   k       "para", "title", "comment", "code" or "doctest"               *)
(*   text    para: its text; title: the title text, written over an        *)
(*           underline shorter than it (the token "===="); comment: what   *)
(*           follows ".. rstcheck:" on the line                            *)
(*   dir     code: the directive's name                                    *)
(*   lang    code: the directive's argument                                *)
(*   len     code, doctest: the number of lines of the fragment            *)
(*   trail   code: the number of blank lines after the fragment            *)
(*   prompt  code: the fragment's first line begins with ">>> "            *)
(*   res     code, doctest: what the fragment's checker finds in it        *)
(*   struct  code, doctest: what the doctest parser finds in the fragment  *)
(*   eline   code, doctest: the fragment line the checker's tool names     *)
(*   hasline code: the parser gives the node a line                        *)
(*   inner   code of language rst: the nested document                     *)
(***************************************************************************)
Block(k, text, dir, lang, len, trail, prompt, res, struct, eline, hasline, inner) ==
  [k |-> k, text |-> text, dir |-> dir, lang |-> lang, len |-> len,
   trail |-> trail, prompt |-> prompt, res |-> res, struct |-> struct,
   eline |-> eline, hasline |-> hasline, inner |-> inner]
Para(text) == Block("para", text, "", "", 0, 0, FALSE, "ok", "ok", 0, TRUE, <<>>)
Title(text) == Block("title", text, "", "", 0, 0, FALSE, "ok", "ok", 0, TRUE, <<>>)
Comment(text) == Block("comment", text, "", "", 0, 0, FALSE, "ok", "ok", 0, TRUE, <<>>)
Code(dir, lang, len, trail, prompt, res, struct, eline, hasline) ==
  Block("code", <<>>, dir, lang, len, trail, prompt, res, struct, eline, hasline, <<>>)
Doctest(len, struct, eline) ==
  Block("doctest", <<>>, "", "doctest", len, 0, TRUE, "ok", struct, eline, TRUE, <<>>)
Rst(inner, trail) ==
  Block("code", <<>>, "code-block", "rst", 0, trail, FALSE, "ok", "ok", 0, TRUE, inner)
\* A directive without argument or content.
Directive(name) ==
  Block("directive", <<>>, name, "", 0, 0, FALSE, "ok", "ok", 0, TRUE, <<>>)

Blanks(n) == [i \in 1..n |-> <<>>]

RECURSIVE StripTrailingBlank(_)
StripTrailingBlank(lines) ==
  IF lines # <<>> /\ ~NonBlank(lines[Len(lines)])
  THEN StripTrailingBlank(SubSeq(lines, 1, Len(lines) - 1))
  ELSE lines

Indent(lines) ==
  [i \in 1..Len(lines) |-> IF lines[i] = <<>> THEN <<>> ELSE <<" ">> \o lines[i]]

RECURSIVE RenderDoc(_)
RECURSIVE RawSource(_)
\* node.rawsource.splitlines() of the block's node.
RawSource(b) ==
  IF b.k = "para" \/ b.k = "title" THEN <<b.text>>
  ELSE IF b.k = "doctest" THEN [i \in 1..b.len |-> <<">>>", " ", "code">>]
  ELSE IF b.k = "code" /\ b.inner # <<>> THEN StripTrailingBlank(RenderDoc(b.inner))
  ELSE IF b.k = "code"
       THEN [i \in 1..b.len |->
               IF i = 1 /\ b.prompt THEN <<">>>", " ", "code">> ELSE <<"code">>]
  ELSE <<>>

\* The lines of the document text a block is written as.
RenderBlock(b) ==
  IF b.k = "para" THEN <<b.text, <<>>>>
  ELSE IF b.k = "title" THEN <<b.text, <<"====">>, <<>>>>
  ELSE IF b.k = "comment" THEN << <<RSTCHECK_COMMENT>> \o b.text, <<>> >>
  ELSE IF b.k = "doctest" THEN RawSource(b) \o <<<<>>>>
  ELSE << <<"..", " ", b.dir, "::", " ", b.lang>>, <<>> >>
       \o Indent(RawSource(b)) \o Blanks(b.trail)

RenderDoc(doc) ==
  IF doc = <<>> THEN <<>>
  ELSE RenderBlock(Head(doc)) \o RenderDoc(Tail(doc))

\* The number of document lines before block i.
Offset(doc, i) == Len(RenderDoc(SubSeq(doc, 1, i - 1)))

\* ------------------------------------------------- the parser collaborator
(***************************************************************************)
(* What docutils hands to the visitor: one node per block, in document     *)
(* order. A node's line is the parser's current line when the node is      *)
(* attached: the last line of the block's text, its trailing blank lines   *)
(* included, as far as the text goes (nlines); 0 stands for None. A        *)
(* directive registered as IgnoredDirective leaves no node (type "none"); a *)
(* directive the parser does not know leaves a system_message.             *)
(***************************************************************************)
Node(type, language, classes, rawsource, line) ==
  [type |-> type, language |-> language, classes |-> classes,
   rawsource |-> rawsource, line |-> line, natts |-> 0]

NodeOf(doc, i, registry, nlines) ==
  LET b == doc[i]
      o == Offset(doc, i)
      raw == RawSource(b)
  IN IF b.k = "para" THEN Node("paragraph", "", <<>>, raw, o + 1)
     ELSE IF b.k = "title" THEN Node("title", "", <<>>, raw, o + 1)
     ELSE IF b.k = "comment" THEN Node("comment", "", <<>>, <<>>, o + 1)
     ELSE IF b.k = "doctest" THEN Node("doctest_block", "", <<>>, raw, o + Len(raw))
     ELSE IF b.k = "directive"
     THEN Node(IF registry[b.dir] = "IgnoredDirective" THEN "none" ELSE "system_message",
               "", <<>>, <<>>, o + 1)
     ELSE LET last == o + 2 + Len(raw) + b.trail
              line == IF ~b.hasline THEN 0 ELSE IF last > nlines THEN nlines ELSE last
          IN IF registry[b.dir] = "CodeBlockDirective"
             THEN Node("literal_block", b.lang, <<"code-block">>, raw, line)
             ELSE IF registry[b.dir] = "native"
             THEN Node("literal_block", "",
                       IF b.lang = "" THEN <<"code">> ELSE <<"code", b.lang>>, raw, line)
             ELSE Node("none", "", <<>>, <<>>, 0)

\* The warnings the parser writes while it parses: a title whose underline is
\* too short is reported at the underline, followed by a blank line and the
\* two source lines quoted; a directive that is not registered is reported
\* at its line, followed by a blank line and its text quoted.
RECURSIVE ParserWarnings(_, _, _, _)
ParserWarnings(doc, i, filename, registry) ==
  IF i > Len(doc) THEN <<>>
  ELSE (IF doc[i].k = "title"
        THEN << <<filename, ":">> \o Format(Offset(doc, i) + 2)
                  \o <<":", " ", "(WARNING/2)", " ", "Title">>,
                <<>>, doc[i].text, <<"====">> >>
        ELSE IF doc[i].k = "directive" /\ registry[doc[i].dir] # "IgnoredDirective"
        THEN << <<filename, ":">> \o Format(Offset(doc, i) + 1)
                  \o <<":", " ", "(ERROR/3)", " ", "Unknown directive type">>,
                <<>>, RenderBlock(doc[i])[1] >>
        ELSE <<>>)
       \o ParserWarnings(doc, i + 1, filename, registry)

\* ------------------------------------------------ the external checkers
\* The text of the exception json.loads / ElementTree.fromstring raises.
ParseErrorText(b) ==
  IF b.eline = 0 THEN <<"Extra", " ", "data">>
  ELSE <<"Expecting", " ", "value", ":", " ", "line", " ">> \o Format(b.eline)
       \o <<" ", "column">>

\* The text of the ValueError doctest.DocTestParser().parse raises.
DoctestErrorText(b) ==
  <<"line", " ">> \o Format(b.eline) \o <<" ", "of", " ", "the", " ", "docstring">>

\* What bash -n writes to stderr for the fragment stored as `tmp`.
BashStderr(b, tmp) ==
  IF b.res = "err"
  THEN << <<tmp, ":", " ", "line", " ">> \o Format(b.eline) \o <<":", " ", "syntax">> >>
  ELSE IF b.res = "junk" THEN << <<"bash", ":", " ", "warning">> >>
  ELSE <<>>

\* What the compiler writes to stderr for the fragment stored as `tmp`.
GccStderr(b, tmp) ==
  IF b.res = "err"
  THEN << <<tmp, ":", " ", "In", " ", "function", ":">>,
          <<tmp, ":">> \o Format(b.eline) \o <<":", "1", ":", " ", "error">> >>
  ELSE IF b.res = "junk"
  THEN << <<tmp, ":", " ", "In", " ", "function", ":">>, <<"cc1", ":", " ", "note">> >>
  ELSE <<>>

\* process.returncode
ReturnCode(b) == IF b.res = "ok" THEN 0 ELSE 1

\* ------------------------------------------------------------ the checkers
\* A raw result of a checker: (line, message), local to the fragment.
Pair(line, msg) == [line |-> line, msg |-> msg]
Yielded(pairs) == [exc |-> "none", pairs |-> pairs]
Raised(e, pairs) == [exc |-> e, pairs |-> pairs]

\* check_python: compile() raises SyntaxError or does not; lineno None is 0.
check_python(b) ==
  IF b.res = "ok" THEN <<>> ELSE <<Pair(b.eline, <<"invalid", " ", "syntax">>)>>

\* The first run of digits of s, s starting with it.
RECURSIVE LeadingDigits(_)
LeadingDigits(s) ==
  IF s # <<>> /\ IsDigit(s[1]) THEN <<s[1]>> \o LeadingDigits(Tail(s)) ELSE <<>>

LastIndexOf(s, t) ==
  IF \E i \in 1..Len(s) : s[i] = t
  THEN CHOOSE i \in 1..Len(s) : s[i] = t /\ \A j \in (i + 1)..Len(s) : s[j] # t
  ELSE 0

\* re.search(r": line\s+([0-9]+)[^:]*$", message): group 1 as a number, 0 when
\* there is no match. The match starts at the last colon of the message.
LineInMessage(message) ==
  LET i == LastIndexOf(message, ":")
      rest == DropN(message, i)
      number == LeadingDigits(LStrip(DropN(rest, 2)))
  IN IF i > 0 /\ StartsWith(rest, <<" ", "line", " ">>) /\ number # <<>>
     THEN DigitsValue(number) ELSE 0

\* check_json and check_xml
check_json(b) ==
  IF b.res = "ok" THEN <<>>
  ELSE LET message == ParseErrorText(b)
       IN <<Pair(LineInMessage(message), message)>>

\* check_doctest: re.match("line ([0-9]+)", message)
check_doctest(b) ==
  IF b.struct = "ok" THEN <<>>
  ELSE LET message == DoctestErrorText(b)
           number == LeadingDigits(DropN(message, 2))
       IN IF StartsWith(message, <<"line", " ">>) /\ number # <<>>
          THEN <<Pair(DigitsValue(number), message)>>
          ELSE <<>>

\* bash_checker.run_check over the lines of the tool's output.
RECURSIVE bash_run_check(_, _)
bash_run_check(output, filename) ==
  IF output = <<>> THEN Yielded(<<>>)
  ELSE LET line == Head(output)
           prefix == <<filename, ":", " ", "line", " ">>
       IN IF ~StartsWith(line, prefix) THEN bash_run_check(Tail(output), filename)
          ELSE LET message == DropN(line, Len(prefix))
                   split_message == Split(message, ":", 1)
                   number == IntOf(split_message[1])
               IN IF ~number.ok THEN Raised("ValueError", <<>>)
                  ELSE IF Len(split_message) < 2 THEN Raised("IndexError", <<>>)
                  ELSE LET rest == bash_run_check(Tail(output), filename)
                       IN Raised(rest.exc,
                                 <<Pair(number.val - 1, Strip(split_message[2]))>>
                                 \o rest.pairs)

\* gcc_checker.run_check over the lines of the tool's output.
RECURSIVE gcc_run_check(_, _)
gcc_run_check(output, filename) ==
  IF output = <<>> THEN Yielded(<<>>)
  ELSE LET parsed == parse_gcc_style_error_message(Head(output), filename, TRUE)
       IN IF parsed.exc = "ValueError" THEN gcc_run_check(Tail(output), filename)
          ELSE IF parsed.exc # "none" THEN Raised(parsed.exc, <<>>)
          ELSE LET rest == gcc_run_check(Tail(output), filename)
               IN Raised(rest.exc, <<Pair(parsed.line, parsed.msg)>> \o rest.pairs)

\* The name of the temporary file of a subprocess checker.
TmpName == "tmp"
\* The languages of check_dict, and those whose checker starts a process.
CheckDictKeys == {"bash", "c", "cpp", "json", "xml", "python", "rst"}
SubprocessKinds == {"bash", "c", "cpp"}

\* run_in_subprocess.run and the run_check around it: what the Deferred
\* Checker of kind `kind` yields for fragment b once its process has ended.
subprocess_run_check(kind, b) ==
  IF ReturnCode(b) = 0 THEN Yielded(<<>>)
  ELSE IF b.res = "undecodable" THEN Raised("UnicodeError", <<>>)
  ELSE IF kind = "bash" THEN bash_run_check(BashStderr(b, TmpName), TmpName)
  ELSE gcc_run_check(GccStderr(b, TmpName), TmpName)

\* The checkers of check_dict that run in the process of check().
inprocess_run(kind, b) ==
  IF kind = "python" THEN Yielded(check_python(b))
  ELSE IF kind = "doctest" THEN Yielded(check_doctest(b))
  ELSE Yielded(check_json(b))

\* A diagnostic check() yields. origin and region do not exist in the
\* program: they record where the diagnostic comes from ("directive",
\* "checker" or "native"; the path of block indices of the code region).
Diag(line, msg, origin, region) ==
  [line |-> line, msg |-> msg, origin |-> origin, region |-> region]

\* run_check with "error_offset = result[0]".
RECURSIVE run_check_unshifted(_, _, _, _)
run_check_unshifted(c, all_results, lines, region) ==
  IF all_results = <<>> THEN [exc |-> "none", diags |-> <<>>]
  ELSE IF c.node.line = 0 THEN run_check_unshifted(c, Tail(all_results), lines, region)
  ELSE LET result == Head(all_results)
           error_offset == result.line
           start == beginning_of_code_block(c.node, c.node.line, lines, c.is_code_node)
       IN IF start.exc # "none" THEN [exc |-> start.exc, diags |-> <<>>]
          ELSE LET rest == run_check_unshifted(c, Tail(all_results), lines, region)
               IN [exc |-> rest.exc,
                   diags |-> <<Diag(start.val + error_offset,
                                    <<"(", c.language, ")", " ">> \o result.msg,
                                    IF "origin" \in DOMAIN result
                                    THEN result.origin ELSE "checker",
                                    IF "region" \in DOMAIN result
                                    THEN result.region ELSE region)>>
                             \o rest.diags]

\* _add_check.run_check: the diagnostics made of the raw results all_results
\* of checker c. A result is a Pair, or a Diag that a nested check yielded
\* (it keeps its origin and region); `lines` is file_contents.splitlines().
RECURSIVE run_check(_, _, _, _)
run_check(c, all_results, lines, region) ==
  IF all_results = <<>> THEN [exc |-> "none", diags |-> <<>>]
  ELSE IF c.node.line = 0 THEN run_check(c, Tail(all_results), lines, region)
  ELSE LET result == Head(all_results)
           error_offset == result.line - 1
           start == beginning_of_code_block(c.node, c.node.line, lines, c.is_code_node)
       IN IF start.exc # "none" THEN [exc |-> start.exc, diags |-> <<>>]
          ELSE LET rest == run_check(c, Tail(all_results), lines, region)
               IN [exc |-> rest.exc,
                   diags |-> <<Diag(start.val + error_offset,
                                    <<"(", c.language, ")", " ">> \o result.msg,
                                    IF "origin" \in DOMAIN result
                                    THEN result.origin ELSE "checker",
                                    IF "region" \in DOMAIN result
                                    THEN result.region ELSE region)>>
                             \o rest.diags]

\* ----------------------------------------------------------- the visitor
\* A Deferred Checker: the closure _add_check appends to self.checkers.
\* proc is the index of its process in procs, 0 when it has none.
\* A checker whose process is not started when it is registered.
checker_unstarted(kind, language, node, blk, is_code_node, proc) ==
  [kind |-> kind, language |-> language, node |-> node, blk |-> blk,
   is_code_node |-> is_code_node, proc |-> 0]
Checker(kind, language, node, blk, is_code_node, proc) ==
  [kind |-> kind, language |-> language, node |-> node, blk |-> blk,
   is_code_node |-> is_code_node, proc |-> proc]

\* What a visit does: the exception it raises, the checkers it registers,
\* whether it starts a process, the lines it writes to the warning stream.
Visited(exc, add, launch, warn) ==
  [exc |-> exc, add |-> add, launch |-> launch, warn |-> warn]
NoVisit == Visited("none", <<>>, FALSE, <<>>)

\* CheckTranslator.visit_doctest_block
visit_doctest_block(node, blk, languages) ==
  IF Contains(languages, "doctest") THEN NoVisit
  ELSE Visited("none", <<Checker("doctest", "doctest", node, blk, FALSE, 0)>>,
               FALSE, <<>>)

\* node.rawsource.lstrip().startswith(">>> ")
StartsWithPrompt(rawsource) ==
  LET nonblank == {i \in 1..Len(rawsource) : NonBlank(rawsource[i])}
  IN nonblank # {}
     /\ StartsWith(LStrip(rawsource[CHOOSE i \in nonblank : \A j \in nonblank : i <= j]),
                   <<">>>", " ">>)

\* The condition without its test of the ">>> " prompt.
IsDoctestLanguage(language, rawsource) == language = "doctest"

\* The condition under which visit_literal_block hands the node to
\* visit_doctest_block.
IsDoctestStyle(language, rawsource) ==
  language = "doctest" \/ (language = "python" /\ StartsWithPrompt(rawsource))

\* visit_literal_block without "if language in self.ignore['languages']".
visit_literal_block_unfiltered(node, blk, b, languages, nprocs) ==
  LET is_code_node == node.language = ""
      skipped == node.language = "" /\ ~Contains(node.classes, "code")
      language == IF node.language # "" THEN node.language
                  ELSE IF node.classes # <<>> THEN node.classes[Len(node.classes)]
                  ELSE ""
  IN IF skipped THEN NoVisit
     ELSE IF IsDoctestStyle(language, node.rawsource)
          THEN visit_doctest_block(node, blk, languages)
     ELSE IF language \notin CheckDictKeys THEN NoVisit
     ELSE IF language \in SubprocessKinds
          THEN IF b.res = "notool" THEN Visited("OSError", <<>>, FALSE, <<>>)
               ELSE Visited("none",
                            <<Checker(language, language, node, blk, is_code_node,
                                      nprocs + 1)>>,
                            TRUE, <<>>)
     ELSE Visited("none", <<Checker(language, language, node, blk, is_code_node, 0)>>,
                  FALSE, <<>>)

\* CheckTranslator.visit_literal_block; b is the fragment's block, nprocs the
\* number of processes started so far.
visit_literal_block(node, blk, b, languages, nprocs) ==
  LET is_code_node == node.language = ""
      skipped == node.language = "" /\ ~Contains(node.classes, "code")
      language == IF node.language # "" THEN node.language
                  ELSE IF node.classes # <<>> THEN node.classes[Len(node.classes)]
                  ELSE ""
  IN IF skipped THEN NoVisit
     ELSE IF Contains(languages, language) THEN NoVisit
     ELSE IF IsDoctestStyle(language, node.rawsource)
          THEN visit_doctest_block(node, blk, languages)
     ELSE IF language \notin CheckDictKeys THEN NoVisit
     ELSE IF language \in SubprocessKinds
          THEN IF b.res = "notool" THEN Visited("OSError", <<>>, FALSE, <<>>)
               ELSE Visited("none",
                            <<Checker(language, language, node, blk, is_code_node,
                                      nprocs + 1)>>,
                            TRUE, <<>>)
     ELSE Visited("none", <<Checker(language, language, node, blk, is_code_node, 0)>>,
                  FALSE, <<>>)

\* CheckTranslator.visit_paragraph
visit_paragraph(node, filename) ==
  IF \E i \in 1..Len(node.rawsource) : Contains(node.rawsource[i], "[a](b)")
  THEN Visited("none", <<>>, FALSE,
               << <<filename, ":">> \o Format(node.line)
                  \o <<":", " ", "(WARNING/2)", " ", "(rst)", " ", "Link">> >>)
  ELSE NoVisit

\* NodeVisitor dispatch: visit_<type>, unknown_visit for the other types.
visit(node, blk, b, languages, nprocs, filename) ==
  IF node.type = "literal_block" THEN visit_literal_block(node, blk, b, languages, nprocs)
  ELSE IF node.type = "doctest_block" THEN visit_doctest_block(node, blk, languages)
  ELSE IF node.type = "paragraph" THEN visit_paragraph(node, filename)
  ELSE NoVisit

\* The language a region declares, "" when it is no code region.
DeclaredLanguage(node) ==
  IF node.type = "doctest_block" THEN "doctest"
  ELSE IF node.type # "literal_block" THEN ""
  ELSE IF node.language # "" THEN node.language
  ELSE IF Contains(node.classes, "code") THEN node.classes[Len(node.classes)]
  ELSE ""

\* ---------------------------------------------- parser-native diagnostics
\* str.strip() of the whole warning text, then splitlines().
RECURSIVE StripLeadingBlank(_)
StripLeadingBlank(lines) ==
  IF lines # <<>> /\ ~NonBlank(lines[1]) THEN StripLeadingBlank(Tail(lines)) ELSE lines

StripText(lines) ==
  LET t == StripTrailingBlank(StripLeadingBlank(lines))
  IN [i \in 1..Len(t) |->
        IF i = 1 /\ i = Len(t) THEN Strip(t[i])
        ELSE IF i = 1 THEN LStrip(t[i])
        ELSE IF i = Len(t) THEN RStrip(t[i])
        ELSE t[i]]

\* A loop that never skips a message.
never_suppressed(ignore_regex, message) == FALSE

\* "if ignore_regex and re.search(ignore_regex, message): continue"
suppressed(ignore_regex, message) == ignore_regex # "" /\ Search(ignore_regex, message)

\* The loop of check() over the lines of the warning stream.
RECURSIVE native_loop(_, _, _, _)
native_loop(messages, filename, ignore_regex, region) ==
  IF messages = <<>> THEN [exc |-> "none", diags |-> <<>>]
  ELSE LET message == Head(messages)
       IN IF suppressed(ignore_regex, message)
          THEN native_loop(Tail(messages), filename, ignore_regex, region)
          ELSE LET parsed == parse_gcc_style_error_message(message, filename, FALSE)
               IN IF parsed.exc = "ValueError"
                  THEN native_loop(Tail(messages), filename, ignore_regex, region)
                  ELSE IF parsed.exc # "none" THEN [exc |-> parsed.exc, diags |-> <<>>]
                  ELSE LET rest == native_loop(Tail(messages), filename,
                                               ignore_regex, region)
                       IN [exc |-> rest.exc,
                           diags |-> <<Diag(parsed.line, parsed.msg, "native", region)>>
                                     \o rest.diags]

\* ------------------------------------------------------------------ inputs
Text1 == <<"text">>
IgnoreComment(lang) == Comment(<<" ", "ignore-language", "=", lang>>)
MalformedComment == Comment(<<" ", "ignore-language">>)
PyErr == Code("code-block", "python", 1, 1, FALSE, "err", "ok", 1, TRUE)
BashErr == Code("code-block", "bash", 1, 1, FALSE, "err", "ok", 1, TRUE)
ShortTitle == Title(<<"Title">>)

\* The blocks the longer documents are made of.
CoreBlocks ==
  {Para(Text1), IgnoreComment("python"), MalformedComment, PyErr, BashErr,
   ShortTitle, Rst(<<IgnoreComment("python")>>, 1)}

\* Code blocks of every language, valid and not.
LanguageBlocks ==
  {Code("code-block", l, 1, 1, FALSE, r, "ok", 1, TRUE) :
     l \in {"python", "bash", "c", "json", "doctest", "ruby"}, r \in {"ok", "err"}}
  \cup {Code("code-block", l, 1, 1, FALSE, r, "ok", 1, TRUE) :
     l \in {"bash", "c"}, r \in {"junk"}}
  \cup {Code("code-block", "bash", 1, 1, FALSE, r, "ok", 1, TRUE) :
     r \in {"undecodable", "notool"}}
  \cup {Code("code-block", l, 1, 1, TRUE, r, st, 1, TRUE) :
     l \in {"python", "doctest"}, r \in {"ok", "err"}, st \in {"ok", "err"}}
  \cup {Code(d, "python", 1, 1, FALSE, "err", "ok", 1, TRUE) : d \in {"code", "sourcecode"}}

\* Code blocks of every length, position of the error and number of
\* following blank lines; with and without a line given by the parser.
LayoutBlocks ==
  {Code("code-block", "python", n, t, FALSE, "err", "ok", e, h) :
     n \in 1..MaxCodeLen, t \in 0..MaxTrail, e \in 0..MaxCodeLen, h \in BOOLEAN}
  \cup {Code("code-block", "bash", n, t, FALSE, "err", "ok", e + 1, TRUE) :
     n \in 1..MaxCodeLen, t \in 0..MaxTrail, e \in 0..MaxCodeLen}
  \cup {Doctest(n, st, e) : n \in 1..MaxCodeLen, st \in {"ok", "err"}, e \in 1..MaxCodeLen}

\* A fragment's checker names a line of the fragment: bash names one
\* past the last line at most, python and json may name none (0).
WellFormed(b) ==
  b.k \in {"code", "doctest"} /\ b.inner = <<>> =>
    IF b.lang = "bash" THEN b.eline \in 1..(b.len + 1)
    ELSE IF b.k = "doctest" THEN b.eline \in 1..b.len
    ELSE b.eline \in 0..b.len

\* Directive comments, titles and paragraphs of every form.
TextBlocks ==
  {Comment(t) : t \in {<<" ", "foo", "=", "bar">>,
                       <<" ", "ignore-language", "=", "cpp", ",", " ", "json">>,
                       <<" ", "ignore-language", " ", "=", "python">>,
                       <<" ", "a", "=", "b", "=", "c">>}}
  \cup {Title(t) : t \in {<<"F", ":", "9", "9", ":", " ", "boom">>,
                          <<"F", ":", "7">>,
                          <<"F", ":", " ", "see">>}}
  \cup {Para(<<"[a](b)">>)}

\* Nested documents.
NestedBlocks ==
  {Rst(d, t) : d \in {<<PyErr>>, <<ShortTitle>>, <<MalformedComment>>,
                      <<Para(Text1), BashErr>>, <<Para(<<"[a](b)">>)>>,
                      <<Title(<<"<string>", ":", "7">>)>>,
                      <<IgnoreComment("python"), PyErr>>,
                      <<Rst(<<PyErr>>, 0)>>},
               t \in {0, 1}}

RichBlocks ==
  {b \in LanguageBlocks \cup LayoutBlocks : WellFormed(b)}
  \cup TextBlocks \cup NestedBlocks

RECURSIVE SeqsUpTo(_, _)
SeqsUpTo(S, n) ==
  IF n = 0 THEN {<<>>}
  ELSE LET shorter == SeqsUpTo(S, n - 1)
       IN shorter \cup {Append(d, b) : d \in shorter, b \in S}

\* Documents with a malformed directive between, before or after
\* ignore-language directives.
ScanDocs ==
  {<<IgnoreComment("bash"), MalformedComment, IgnoreComment("python"), BashErr, PyErr>>,
   <<IgnoreComment("python"), MalformedComment, PyErr>>,
   <<MalformedComment, IgnoreComment("python"), PyErr>>,
   <<MalformedComment, MalformedComment, PyErr>>}

\* Documents of two nested fragments, the first with an ignore-language
\* directive.
SiblingDocs ==
  {<<Rst(<<IgnoreComment("python")>>, 1), Rst(<<PyErr>>, t)>> : t \in {0, 1}}

\* Documents in which a process is started and a fault follows: the output of
\* the first tool cannot be decoded, or the second tool cannot be started.
FaultDocs ==
  {<<Code("code-block", "bash", 1, 1, FALSE, "undecodable", "ok", 1, TRUE), BashErr>>,
   <<BashErr, Code("code-block", "c", 1, 1, FALSE, "notool", "ok", 1, TRUE)>>}

\* Documents with a process of their own and a process of a nested fragment.
OverlapDocs ==
  {<<BashErr, Rst(<<Para(Text1), BashErr>>, 0)>>,
   <<Rst(<<Para(Text1), BashErr>>, 0), BashErr>>}

Docs ==
  (SeqsUpTo(CoreBlocks, MaxBlocks) \ {<<>>})
  \cup FaultDocs
  \cup OverlapDocs \cup SiblingDocs \cup ScanDocs
  \cup {<<b>> : b \in RichBlocks}
  \cup {<<Para(Text1), b>> : b \in RichBlocks}
  \cup {<<b, PyErr>> : b \in TextBlocks \cup NestedBlocks}

\* The ignore argument of check(): given is FALSE for None and for {}.
Arg(given, languages, messages, directives) ==
  [given |-> given, languages |-> languages, messages |-> messages,
   directives |-> directives]
Args ==
  {Arg(FALSE, <<>>, "", <<>>), Arg(TRUE, <<>>, "", <<>>),
   Arg(TRUE, <<"python">>, "", <<>>), Arg(TRUE, <<"bash">>, "", <<>>),
   Arg(TRUE, <<"doctest">>, "", <<>>), Arg(TRUE, <<>>, "Title", <<>>),
   Arg(TRUE, <<>>, "syntax", <<>>), Arg(TRUE, <<>>, " ", <<>>),
   Arg(TRUE, <<>>, "", <<"code">>)}

\* What _check_file returns or raises for a further file of the command
\* line: its list of errors, or the exception.
OtherResults ==
  {[exc |-> "none", out |-> <<>>],
   [exc |-> "none", out |-> <<Diag(1, <<"(WARNING/2)", " ", "Title">>, "native", <<>>)>>],
   [exc |-> "OSError", out |-> <<>>],
   [exc |-> "UnicodeError", out |-> <<>>],
   [exc |-> "IndexError", out |-> <<>>]}

\* ------------------------------------------------------------------- state
VARIABLES
  doc,       \* the text of the file checked, as blocks
  mode,      \* "cli": main() checks the file; "api": a caller of check()
  arg,       \* the caller's ignore configuration
  ignore,    \* the ignore dictionary check() works on
  registry,  \* the parser's directive registry, process-wide
  stack,     \* the running check() calls, the innermost last
  procs,     \* the state of each external process started
  out,       \* the diagnostics the running top-level check() has yielded
  call,      \* the number of top-level check() calls begun
  results,   \* for each finished top-level call: exception and diagnostics
  trace,     \* for each code region visited: what the visit did
  shared,    \* the second call was given the dictionary of the first
  pc,        \* main(): "run", "returned" or "raised"
  status,    \* main()'s status
  printed,   \* the messages main() has printed
  files,     \* what _check_file returned or raised for each file of main()
  fault,     \* the message at which output_message failed, 0 for none
  conv,      \* the calls of run_check in the last step that yielded: the
             \* checker, the text, the raw results and the diagnostics made
  resolver,  \* a call of beginning_of_code_block on its own: arguments and result
  tmp   \* for each external process, its temporary file: "present" or "deleted"

vars == <<doc, mode, arg, ignore, registry, stack, procs, out, call, results,
          trace, shared, pc, status, printed, files, fault, conv,
          resolver,
          tmp>>

DirectiveNames == {"code", "code-block", "sourcecode"}
\* A directive of some extension, which docutils does not know.
CustomDirective == "custom"
\* The names the registry is looked up with.
RegistryNames == DirectiveNames \cup {CustomDirective}
TopFilename == "F"
NestedFilename == "<string>"

Frame(src, path, filename) ==
  [src |-> src, path |-> path, filename |-> filename, phase |-> "scan",
   ni |-> 1, checkers |-> <<>>, ci |-> 1, sio |-> <<>>]

Top == stack[Len(stack)]
\* source.splitlines() of a frame: a nested fragment is the node's rawsource.
FrameLines(f) ==
  IF f.path = <<>> THEN RenderDoc(f.src) ELSE StripTrailingBlank(RenderDoc(f.src))

Init ==
  /\ doc \in Docs
  /\ mode \in {"cli", "api"}
  /\ arg \in Args
  /\ mode = "cli" => arg.given
  /\ ignore = [languages |-> <<>>, messages |-> "", directives |-> <<>>]
  /\ registry = [d \in RegistryNames |-> "native"]
  /\ stack = <<>>
  /\ procs = <<>>
  /\ out = <<>>
  /\ call = 0
  /\ results = <<>>
  /\ trace = <<>>
  /\ shared = FALSE
  /\ pc = "run"
  /\ status = 0
  /\ printed = <<>>
  /\ files = <<>>
  /\ fault = 0
  /\ conv = <<>>
  /\ resolver = [pc |-> "idle"]
  /\ tmp = <<>>

\* ----------------------------------------------------------------- actions
\* register_code_directive: without Sphinx, each of the three directives
\* that is not ignored is registered as CodeBlockDirective.
register_code_directive(reg, directives) ==
  IF SPHINX_INSTALLED THEN reg
  ELSE [d \in RegistryNames |->
          IF d \in DirectiveNames /\ ~Contains(directives, d)
          THEN "CodeBlockDirective" ELSE reg[d]]

\* ignore_directives_and_roles
ignore_directives_and_roles(reg, directives) ==
  [d \in RegistryNames |->
     IF Contains(directives, d) THEN "IgnoredDirective" ELSE reg[d]]

\* The dictionary made of the caller's configuration.
IgnoreOf(a) ==
  [languages |-> a.languages, messages |-> a.messages, directives |-> a.directives]

\* What the diagnostics a frame at depth d + 1 yields become on their way
\* through the run_check of the rst checkers of the frames d, ..., 1.
\* The record of a call of run_check (conv).
RECURSIVE LineAndMessage(_)
LineAndMessage(rs) ==
  IF rs = <<>> THEN <<>>
  ELSE <<[line |-> Head(rs).line, msg |-> Head(rs).msg]>>
       \o LineAndMessage(Tail(rs))
Conversion(c, lines, all_results, diags) ==
  [node |-> c.node, is_code_node |-> c.is_code_node, language |-> c.language,
   lines |-> lines, raw |-> LineAndMessage(all_results),
   diags |-> LineAndMessage(diags)]

RECURSIVE Lift(_, _, _)
Lift(stk, d, diags) ==
  IF d = 0 THEN [exc |-> "none", diags |-> diags, calls |-> <<>>]
  ELSE LET f == stk[d]
           c == f.checkers[f.ci]
           here == run_check(c, diags, FrameLines(f), f.path \o <<c.blk>>)
           up == Lift(stk, d - 1, here.diags)
       IN [exc |-> IF up.exc # "none" THEN up.exc ELSE here.exc,
           diags |-> up.diags,
           calls |-> <<Conversion(c, FrameLines(f), diags, here.diags)>> \o up.calls]

FirstExc(a, b) == IF a # "none" THEN a ELSE b

\* The phase after the last visit or the last checker.
AfterWalk(checkers) == IF checkers = <<>> THEN "native" ELSE "checkers"
\* A loop that leaves after its first checker.
after_first_checker(f) == "native"
AfterChecker(f) == IF f.ci >= Len(f.checkers) THEN "native" ELSE "checkers"

\* An exception leaves every running check(): the top-level call ends.
Unwind(e, yielded) ==
  /\ stack' = <<>>
  /\ results' = Append(results, [exc |-> e, out |-> yielded])

\* The innermost check() returns: to its rst checker, or to the caller.
Return(yielded) ==
  IF Len(stack) = 1
  THEN /\ stack' = <<>>
       /\ results' = Append(results, [exc |-> "none", out |-> yielded])
  ELSE /\ stack' = [SubSeq(stack, 1, Len(stack) - 1) EXCEPT
                      ![Len(stack) - 1] =
                        [@ EXCEPT !.ci = @ + 1, !.phase = AfterChecker(stack[Len(stack) - 1])]]
       /\ UNCHANGED results

\* _check_file up to its call of check().
check_file ==
  /\ mode = "cli" /\ pc = "run" /\ call = 0
  /\ registry' = ignore_directives_and_roles(registry, arg.directives)
  /\ ignore' = IgnoreOf(arg)
  /\ stack' = <<Frame(doc, <<>>, TopFilename)>>
  /\ call' = 1
  /\ out' = <<>>
  /\ conv' = <<>>
  /\ UNCHANGED <<tmp, resolver, doc, mode, arg, procs, results, trace, shared, pc, status, printed, files,
                 fault>>

\* A caller of check(): the first call, and a second call on the same text,
\* with the dictionary of the first call or with a new one of the same
\* configuration. "ignore = ignore or {}" makes a new dictionary of None.
call_check ==
  /\ mode = "api" /\ stack = <<>> /\ call < 2 /\ Len(results) = call
  /\ \E reuse \in BOOLEAN :
       /\ reuse => call = 1 /\ arg.given
       /\ ignore' = IF reuse THEN ignore ELSE IgnoreOf(arg)
       /\ shared' = reuse
  /\ stack' = <<Frame(doc, <<>>, TopFilename)>>
  /\ call' = call + 1
  /\ out' = <<>>
  /\ conv' = <<>>
  /\ UNCHANGED <<tmp, resolver, doc, mode, arg, registry, procs, results, trace, pc, status, printed,
                 files, fault>>

\* A scan whose Error is not caught.
scan_raised(scan, path) == [exc |-> IF scan.err = 0 THEN "none" ELSE "Error", diags |-> <<>>]

\* "try: ... except Error as error: yield (error.line_number, f'{error}')"
scan_caught(scan, path) ==
  [exc |-> "none",
   diags |-> IF scan.err = 0 THEN <<>>
             ELSE <<Diag(scan.err, <<"Expected", " ", "\"key=value\"", " ", "syntax">>,
                         "directive", path)>>]

\* check() up to the construction of the writer: the directives are
\* registered, the text is scanned for ignore-language comments, the Error of
\* a malformed comment is yielded as a diagnostic.
Scan ==
  /\ stack # <<>> /\ Top.phase = "scan"
  /\ LET f == Top
         scan == find_ignored_languages(FrameLines(f))
         error == scan_caught(scan, f.path)
         lifted == Lift(stack, Len(stack) - 1, error.diags)
         exc == FirstExc(error.exc, lifted.exc)
     IN /\ registry' = register_code_directive(registry, ignore.directives)
        /\ ignore' = [ignore EXCEPT !.languages = @ \o scan.langs]
        /\ out' = out \o lifted.diags
        /\ conv' = lifted.calls
        /\ IF exc # "none" THEN Unwind(exc, out')
           ELSE /\ stack' = [stack EXCEPT ![Len(stack)].phase = "parse"]
                /\ UNCHANGED results
  /\ UNCHANGED <<tmp, resolver, doc, mode, arg, procs, call, trace, shared, pc, status, printed, files,
                 fault>>

\* publish_string parses the text, writing its warnings to the stream, and
\* calls CheckWriter.translate, which constructs the CheckTranslator.
Parse ==
  /\ stack # <<>> /\ Top.phase = "parse"
  /\ ignore' = [ignore EXCEPT !.languages = Append(@, None)]
  /\ stack' = [stack EXCEPT ![Len(stack)] =
                 [@ EXCEPT !.sio = ParserWarnings(Top.src, 1, Top.filename, registry),
                           !.phase = IF Top.src = <<>> THEN "native" ELSE "walk"]]
  /\ UNCHANGED <<tmp, resolver, doc, mode, arg, registry, procs, out, call, results, trace, shared,
                 pc, status, printed, files, fault, conv>>

\* The effective ignore set of the innermost running check(): the caller's
\* languages and those the scans of the running checks' texts yield.
RECURSIVE ScannedLanguages(_, _)
ScannedLanguages(stk, d) ==
  IF d = 0 THEN {}
  ELSE LET langs == find_ignored_languages(FrameLines(stk[d])).langs
       IN {langs[i] : i \in 1..Len(langs)} \cup ScannedLanguages(stk, d - 1)

EffectiveIgnore(a, stk) ==
  {a.languages[i] : i \in 1..Len(a.languages)} \cup ScannedLanguages(stk, Len(stk))

\* What the visit of a code region did (trace): b is the region's block,
\* ignored tells whether its declared language is in the effective ignore
\* set, kinds are the checkers registered, launched whether a process was
\* started.
Region(path, node, b, v) ==
  [call |-> call, region |-> path, lang |-> DeclaredLanguage(node), b |-> b,
   ignored |-> DeclaredLanguage(node) \in EffectiveIgnore(arg, stack),
   kinds |-> [i \in 1..Len(v.add) |-> v.add[i].kind],
   launched |-> v.launch]

\* walkabout visits the next node; after the last node translate() returns.
Visit ==
  /\ stack # <<>> /\ Top.phase = "walk"
  /\ LET f == Top
         node == NodeOf(f.src, f.ni, registry, Len(FrameLines(f)))
         v == visit(node, f.ni, f.src[f.ni], ignore.languages, Len(procs), f.filename)
         checkers == f.checkers \o v.add
     IN /\ procs' = IF v.launch THEN Append(procs, "running") ELSE procs
        /\ tmp' = IF v.launch THEN Append(tmp, "present") ELSE tmp
        /\ trace' = IF DeclaredLanguage(node) = "" THEN trace
                    ELSE Append(trace, Region(f.path \o <<f.ni>>, node, f.src[f.ni], v))
        /\ IF v.exc # "none" THEN Unwind(v.exc, out)
           ELSE /\ stack' = [stack EXCEPT ![Len(stack)] =
                               [@ EXCEPT !.checkers = checkers,
                                         !.sio = @ \o v.warn,
                                         !.ni = @ + 1,
                                         !.phase = IF f.ni = Len(f.src)
                                                   THEN AfterWalk(checkers)
                                                   ELSE "walk"]]
                /\ UNCHANGED results
  /\ UNCHANGED <<resolver, doc, mode, arg, ignore, registry, out, call, shared, pc, status, printed, files, fault, conv>>

\* A wait that gives up: it returns whatever the state of the process, and
\* leaves a process that has not exited running.
communicate_timeout(state) ==
  [returns |-> TRUE, state |-> IF state = "exited" THEN "reaped" ELSE state]
\* process.communicate() returns once the process has exited, and reaps it;
\* it has no timeout.
communicate(state) == [returns |-> state = "exited", state |-> "reaped"]

\* An external process ends.
ProcExit ==
  /\ \E p \in 1..Len(procs) :
       /\ procs[p] = "running"
       /\ procs' = [procs EXCEPT ![p] = "exited"]
  /\ UNCHANGED <<tmp, resolver, doc, mode, arg, ignore, registry, stack, out, call, results, trace,
                 shared, pc, status, printed, files, fault, conv>>

\* "for checker in writer.checkers: yield from checker()": the next Deferred
\* Checker is invoked. The rst checker calls check() on the fragment with the
\* dictionary of this call; a subprocess checker waits for its process.
RunChecker ==
  /\ stack # <<>> /\ Top.phase = "checkers"
  /\ LET f == Top
         c == f.checkers[f.ci]
         b == f.src[c.blk]
     IN IF c.kind = "rst"
        THEN /\ stack' = Append(stack, Frame(b.inner, f.path \o <<c.blk>>, NestedFilename))
             /\ UNCHANGED <<procs, out, results, conv>>
        ELSE /\ c.proc # 0 => communicate(procs[c.proc]).returns
             /\ LET raw == IF c.proc # 0 THEN subprocess_run_check(c.kind, b)
                           ELSE inprocess_run(c.kind, b)
                    here == run_check(c, raw.pairs, FrameLines(f), f.path \o <<c.blk>>)
                    lifted == Lift(stack, Len(stack) - 1, here.diags)
                    exc == FirstExc(here.exc, FirstExc(lifted.exc, raw.exc))
                IN /\ procs' = IF c.proc # 0
                               THEN [procs EXCEPT ![c.proc] = communicate(@).state]
                               ELSE procs
                   /\ out' = out \o lifted.diags
                   /\ conv' = <<Conversion(c, FrameLines(f), raw.pairs, here.diags)>>
                              \o lifted.calls
                   /\ IF exc # "none" THEN Unwind(exc, out')
                      ELSE /\ stack' = [stack EXCEPT ![Len(stack)] =
                                          [@ EXCEPT !.ci = @ + 1,
                                                    !.phase = AfterChecker(f)]]
                           /\ UNCHANGED results
  /\ UNCHANGED <<tmp, resolver, doc, mode, arg, ignore, registry, call, trace, shared, pc, status,
                 printed, files, fault>>

\* The end of check(): the lines of the warning stream are filtered and
\* parsed, and check() returns.
Native ==
  /\ stack # <<>> /\ Top.phase = "native"
  /\ LET f == Top
         found == native_loop(StripText(f.sio), f.filename, ignore.messages, f.path)
         lifted == Lift(stack, Len(stack) - 1, found.diags)
         exc == FirstExc(lifted.exc, found.exc)
     IN /\ out' = out \o lifted.diags
        /\ conv' = lifted.calls
        /\ IF exc # "none" THEN Unwind(exc, out') ELSE Return(out')
  /\ UNCHANGED <<tmp, resolver, doc, mode, arg, ignore, registry, procs, call, trace, shared, pc,
                 status, printed, files, fault>>

\* Once check() has ended, its writer, the checkers and the temporary file
\* objects they hold are unreachable: the interpreter finalizes the files,
\* which deletes them, at some later moment. Nothing waits for a process
\* that was not waited for.
Collect ==
  /\ stack = <<>>
  /\ \E p \in 1..Len(tmp) : tmp[p] = "present"
  /\ tmp' = [p \in 1..Len(tmp) |-> "deleted"]
  /\ UNCHANGED <<resolver, doc, mode, arg, ignore, registry, stack, procs, out, call,
                 results, trace, shared, pc, status, printed, files, fault, conv>>

\* re.match(r"\([A-Z]+/[0-9]+\)", message)
HasSeverity(msg) ==
  msg # <<>> /\ msg[1] \in {"(INFO/1)", "(WARNING/2)", "(ERROR/3)", "(SEVERE/4)"}

\* str(line_number)
FormatInt(n) == IF n < 0 THEN <<"-">> \o Format(0 - n) ELSE Format(n)

\* The line main() prints for an error.
Message(filename, error) ==
  <<filename, ":">> \o FormatInt(error.line) \o <<":", " ">>
  \o (IF HasSeverity(error.msg) THEN error.msg ELSE <<"(ERROR/3)", " ">> \o error.msg)

\* The errors of all files, in the order main() prints them.
RECURSIVE AllErrors(_, _)
AllErrors(checked, i) ==
  IF i > Len(checked) THEN <<>>
  ELSE [k \in 1..Len(checked[i].out) |->
          Message(IF i = 1 THEN TopFilename ELSE "G", checked[i].out[k])]
       \o AllErrors(checked, i + 1)

\* The exception that leaves the dispatch of the checked: that of the first
\* file that raised.
Dispatched(checked) ==
  LET raising == {i \in 1..Len(checked) : checked[i].exc # "none"}
  IN IF raising = {} THEN "none"
     ELSE checked[CHOOSE i \in raising : \A j \in raising : i <= j].exc

\* main() with no file to check.
main_no_files ==
  /\ mode = "cli" /\ pc = "run" /\ call = 0
  /\ pc' = "returned"
  /\ status' = 0
  /\ UNCHANGED <<tmp, resolver, doc, mode, arg, ignore, registry, stack, procs, out, call, results,
                 trace, shared, printed, files, fault, conv>>

\* A loop over the errors that leaves the status as it was.
status_unset(errors) == 0
\* "status = 1" in the loop over the errors of the files.
status_of(errors) == IF errors = <<>> THEN 0 ELSE 1

\* main() once the files are checked: the first file is the document, the
\* further files have one of OtherResults. output_message fails at the
\* fault-th message when fault is not 0.
main ==
  /\ mode = "cli" /\ pc = "run" /\ stack = <<>> /\ Len(results) = 1
  /\ \E others \in SeqsUpTo(OtherResults, MaxOther) :
       LET all == results \o others
           exc == Dispatched(all)
           errors == AllErrors(all, 1)
       IN /\ files' = all
          /\ \E failed \in 0..Len(errors) :
               /\ fault' = IF exc = "none" THEN failed ELSE 0
               /\ IF exc \in {"OSError", "UnicodeError"}
                  THEN /\ printed' = <<<<exc>>>>
                       /\ status' = 1
                       /\ pc' = "returned"
                  ELSE IF exc # "none"
                  THEN /\ pc' = "raised"
                       /\ UNCHANGED <<printed, status>>
                  ELSE IF failed # 0
                  THEN /\ printed' = SubSeq(errors, 1, failed - 1) \o <<<<"OSError">>>>
                       /\ status' = 1
                       /\ pc' = "returned"
                  ELSE /\ printed' = errors
                       /\ status' = status_of(errors)
                       /\ pc' = "returned"
  /\ UNCHANGED <<tmp, resolver, doc, mode, arg, ignore, registry, stack, procs, out, call, results,
                 trace, shared, conv>>

Next ==
  \/ check_file
  \/ call_check
  \/ Scan
  \/ Parse
  \/ Visit
  \/ ProcExit
  \/ RunChecker
  \/ Native
  \/ Collect
  \/ main_no_files
  \/ main

Spec == Init /\ [][Next]_vars

\* A worker of the pool that has checked another file before: _check_file
\* registered the directives that file's configuration ignores, and check()
\* the code directives it does not ignore.
EarlierDirectives ==
  {<<>>, <<CustomDirective>>, <<"code-block">>, <<"code", "sourcecode">>}
check_earlier_file ==
  /\ mode = "cli" /\ pc = "run" /\ call = 0
  /\ registry = [d \in RegistryNames |-> "native"]
  /\ \E directives \in EarlierDirectives :
       registry' = register_code_directive(
                     ignore_directives_and_roles(registry, directives), directives)
  /\ UNCHANGED <<tmp, resolver, doc, mode, arg, ignore, stack, procs, out, call, results,
                 trace, shared, pc, status, printed, files, fault, conv>>

\* Files with a custom directive and with code directives, and
\* configurations that ignore one of them or none.
WorkerDocs ==
  {<<Directive(CustomDirective)>>, <<Directive(CustomDirective), PyErr>>,
   <<BashErr, Directive(CustomDirective)>>, <<PyErr>>, <<ShortTitle, BashErr>>,
   <<Rst(<<Directive(CustomDirective), PyErr>>, 0)>>}
  \cup {<<Code(d, "python", 1, 1, FALSE, "err", "ok", 1, TRUE)>> : d \in DirectiveNames}
WorkerInit ==
  /\ doc \in WorkerDocs
  /\ mode = "cli"
  /\ arg \in {Arg(TRUE, <<>>, "", ds) :
               ds \in {<<>>, <<CustomDirective>>, <<"code-block">>}}
  /\ ignore = [languages |-> <<>>, messages |-> "", directives |-> <<>>]
  /\ registry = [d \in RegistryNames |-> "native"]
  /\ stack = <<>> /\ procs = <<>> /\ out = <<>> /\ call = 0 /\ results = <<>>
  /\ trace = <<>> /\ shared = FALSE /\ pc = "run" /\ status = 0
  /\ printed = <<>> /\ files = <<>> /\ fault = 0 /\ conv = <<>> /\ tmp = <<>>
  /\ resolver = [pc |-> "idle"]
WorkerNext ==
  \/ check_earlier_file
  \/ check_file
  \/ Scan
  \/ Parse
  \/ Visit
  \/ ProcExit
  \/ RunChecker
  \/ Native
  \/ Collect
  \/ main
WorkerSpec == WorkerInit /\ [][WorkerNext]_vars

\* Documents with external processes, and configurations, for the runs
\* whose end is in question.
LiveDocs ==
  FaultDocs \cup OverlapDocs
  \cup {<<Para(Text1)>>, <<BashErr>>, <<BashErr, BashErr>>, <<BashErr, PyErr>>,
        <<ShortTitle, BashErr>>}
LiveInit ==
  /\ Init
  /\ doc \in LiveDocs
  /\ arg \in {Arg(FALSE, <<>>, "", <<>>), Arg(TRUE, <<>>, "", <<>>)}

\* The innermost check() waits in process.communicate().
Waiting ==
  /\ stack # <<>> /\ Top.phase = "checkers"
  /\ Top.checkers[Top.ci].proc # 0
  /\ ~communicate(procs[Top.checkers[Top.ci].proc]).returns

\* A step of the innermost check(): Scan, Parse, Visit, RunChecker or
\* Native. Each of them changes the stack and no other action does; one of
\* them can be taken unless check() waits for a process.
CheckStep ==
  /\ stack # <<>> /\ ~Waiting
  /\ (stack' = <<>> \/ stack' # stack)

\* The interpreter keeps running: a step of check() or of main() that can be
\* taken is taken. Nothing is assumed of the external processes, of the
\* caller of check(), or of the moment the files are finalized.
LiveSpec ==
  /\ LiveInit /\ [][Next]_vars
  /\ WF_vars(check_file \/ main_no_files)
  /\ WF_stack(CheckStep)
  /\ WF_vars(main)

\* ------------------------------------- beginning_of_code_block on its own
\* The texts of at most n lines, each line blank or not.
RECURSIVE TextsUpTo(_)
TextsUpTo(n) ==
  IF n = 0 THEN {<<>>}
  ELSE LET shorter == TextsUpTo(n - 1)
       IN shorter \cup {Append(t, l) : t \in shorter, l \in {<<>>, <<"text">>}}

\* A call of beginning_of_code_block in the build without Sphinx: any text,
\* any anchor line of the text, any fragment length, either kind of node.
ResolverInit ==
  /\ resolver \in
       {[pc |-> "call", lines |-> t, line_number |-> a, code_block_length |-> n,
         is_code_node |-> c] :
          t \in TextsUpTo(MaxLines) \ {<<>>}, a \in 1..MaxLines, n \in 1..MaxCodeLen,
          c \in BOOLEAN}
  /\ resolver.line_number <= Len(resolver.lines)
  /\ doc = <<>> /\ mode = "api" /\ arg = Arg(FALSE, <<>>, "", <<>>)
  /\ ignore = IgnoreOf(arg)
  /\ registry = [d \in RegistryNames |-> "native"]
  /\ stack = <<>> /\ procs = <<>> /\ out = <<>> /\ call = 0 /\ results = <<>>
  /\ trace = <<>> /\ shared = FALSE /\ pc = "run" /\ status = 0
  /\ printed = <<>> /\ files = <<>> /\ fault = 0 /\ conv = <<>> /\ tmp = <<>>

\* The call returns or raises.
resolve ==
  /\ resolver.pc = "call"
  /\ LET node == Node("literal_block", "", <<>>,
                      [i \in 1..resolver.code_block_length |-> <<"code">>],
                      resolver.line_number)
         r == beginning_of_code_block(node, resolver.line_number, resolver.lines,
                                      resolver.is_code_node)
     IN resolver' = [pc |-> IF r.exc = "none" THEN "returned" ELSE "raised",
                     lines |-> resolver.lines, line_number |-> resolver.line_number,
                     code_block_length |-> resolver.code_block_length,
                     is_code_node |-> resolver.is_code_node,
                     exc |-> r.exc, val |-> r.val]
  /\ UNCHANGED <<tmp, doc, mode, arg, ignore, registry, stack, procs, out, call, results,
                 trace, shared, pc, status, printed, files, fault, conv, tmp>>

ResolverNext == resolve

ResolverSpec == ResolverInit /\ [][ResolverNext]_vars

\* ------------------------------------------------------------- properties
IsPrefix(p, q) == Len(p) <= Len(q) /\ SubSeq(q, 1, Len(p)) = p

\* The fragment of a visited region is invalid for its language's checker.
Invalid(t) == t.b.res = "err"

\* C1: for every code region whose declared language is in the effective
\* ignore set (the caller's languages and the languages the in-document
\* ignore-language directives yield), the traversal registers no Deferred
\* Checker and starts no process, and check() yields no checker diagnostic
\* for the region or for anything inside it.
C1_IgnoredRegionUnchecked ==
  \A i \in 1..Len(trace) :
    trace[i].ignored =>
      /\ trace[i].kinds = <<>>
      /\ ~trace[i].launched
      /\ trace[i].call = call =>
           \A k \in 1..Len(out) : ~IsPrefix(trace[i].region, out[k].region)

\* An invalid fragment of an ignored language was visited, by a directive
\* in the document and not by the caller's configuration, and the call has
\* returned.
C1_Witness ==
  /\ stack = <<>> /\ Len(results) = call /\ call >= 1
  /\ results[call].exc = "none"
  /\ \E i \in 1..Len(trace) :
       /\ trace[i].ignored /\ Invalid(trace[i]) /\ trace[i].call = call
       /\ trace[i].lang \in {"python", "bash"}
       /\ ~Contains(arg.languages, trace[i].lang)

\* The exceptions main() catches.
Faults == {"OSError", "UnicodeError"}

\* A document of plain paragraphs: no code region, no structural issue.
Plain(d) == \A i \in 1..Len(d) : d[i] = Para(Text1)

\* C2: when main() returns, its status is 0 if every file checked gave an
\* empty sequence of diagnostics and neither the dispatch nor the printing
\* met an OS or encoding fault, and 1 in every other case; a run over plain
\* documents returns 0. (main() does not return when a check raises an
\* exception of another kind: that exception leaves main().)
C2_ExitStatus ==
  /\ pc = "returned" =>
       /\ status \in {0, 1}
       /\ status = 0 <=>
            /\ \A i \in 1..Len(files) : files[i].exc = "none" /\ files[i].out = <<>>
            /\ fault = 0
       /\ (Plain(doc) /\ fault = 0
           /\ \A i \in 2..Len(files) : files[i] = [exc |-> "none", out |-> <<>>])
          => status = 0
  /\ pc = "raised" => \E i \in 1..Len(files) : files[i].exc \notin Faults \cup {"none"}

\* main() has returned 0 for two files, the first with a code region that
\* was checked.
C2_Witness ==
  /\ pc = "returned" /\ status = 0 /\ Len(files) = 2
  /\ \E i \in 1..Len(trace) : trace[i].kinds # <<>>

\* C3: every diagnostic check() yields has a line number that is 0 or a
\* line of the document text, 1 <= line <= number of lines.
C3_LineInDocument ==
  \A k \in 1..Len(out) :
    out[k].line = 0 \/ out[k].line \in 1..Len(RenderDoc(doc))

\* The diagnostics the claimed conversion makes of the raw results of a call
\* of run_check: line = resolved start + local line - 1, the message with
\* the "(language) " prefix.
Converted(v) ==
  LET start == beginning_of_code_block(v.node, v.node.line, v.lines, v.is_code_node)
  IN [k \in 1..Len(v.raw) |->
        [line |-> start.val + v.raw[k].line - 1,
         msg |-> <<"(", v.language, ")", " ">> \o v.raw[k].msg]]

\* C4 as stated: each raw (localLine, message) pair of a Deferred Checker
\* becomes a diagnostic at resolved start + localLine - 1, with the
\* message unchanged apart from the "(language) " prefix.
C4_EveryPairConverted ==
  \A i \in 1..Len(conv) : conv[i].diags = Converted(conv[i])

\* C4, amended: the pairs are converted so when the region's node carries a
\* line number; when it carries none, the pairs are dropped and the checker
\* yields nothing.
C4_PairsOfLocatedNodeConverted ==
  \A i \in 1..Len(conv) :
    conv[i].diags = IF conv[i].node.line # 0 THEN Converted(conv[i]) ELSE <<>>

\* A checker of a node with a line has reported an error on a local line
\* other than 1, in a fragment followed by blank lines.
C4_Witness ==
  \E i \in 1..Len(conv) :
    /\ conv[i].node.line # 0 /\ conv[i].language = "python"
    /\ conv[i].raw # <<>> /\ conv[i].raw[1].line = 2
    /\ conv[i].diags # <<>>
    /\ conv[i].lines[conv[i].node.line] = <<>>

\* A block written in doctest style: a doctest block, a code block of
\* language doctest, or one of language python that begins with ">>> ".
DoctestStyle(b) ==
  b.k = "doctest" \/ b.lang = "doctest" \/ (b.lang = "python" /\ b.prompt)

\* C5: a region that gets a checker gets the doctest-syntax checker exactly
\* when its language is doctest, or python with a fragment that begins with
\* ">>> "; such a region never gets the python checker, and when its
\* interactive-example structure is valid it yields no diagnostic, whatever
\* the syntax of the wrapped code.
C5_DoctestRouting ==
  \A i \in 1..Len(trace) :
    /\ trace[i].kinds # <<>> =>
         (trace[i].kinds = <<"doctest">> <=> DoctestStyle(trace[i].b))
    /\ DoctestStyle(trace[i].b) => ~Contains(trace[i].kinds, "python")
    /\ (DoctestStyle(trace[i].b) /\ trace[i].b.struct = "ok" /\ trace[i].call = call)
       => \A k \in 1..Len(out) : out[k].region # trace[i].region

\* A python block in doctest style, its wrapped code invalid and its
\* structure valid, got the doctest checker, and the call has returned
\* without a diagnostic.
C5_Witness ==
  /\ stack = <<>> /\ Len(results) = call /\ call >= 1
  /\ results[call] = [exc |-> "none", out |-> <<>>]
  /\ \E i \in 1..Len(trace) :
       /\ trace[i].call = call /\ trace[i].kinds = <<"doctest">>
       /\ trace[i].b.lang = "python" /\ trace[i].b.prompt
       /\ trace[i].b.res = "err" /\ trace[i].b.struct = "ok"

\* The diagnostic check() is to yield for the title of block i: the parser
\* reports the short underline at the title's second line.
TitleWarning(i) ==
  [line |-> Offset(doc, i) + 2, msg |-> <<"(WARNING/2)", " ", "Title">>]
TitleWarningLine(i) ==
  <<TopFilename, ":">> \o Format(Offset(doc, i) + 2) \o <<":", " ">> \o TitleWarning(i).msg

\* C6: the ignore-message regular expression suppresses parser-native
\* diagnostics only: no parser-native diagnostic that matches it is
\* yielded, a title warning that does not match it is yielded, and what a
\* Deferred Checker's conversion makes is yielded whether or not it matches.
C6_RegexFiltersNativeOnly ==
  /\ \A k \in 1..Len(out) :
       (out[k].origin = "native" /\ arg.messages # "")
       => ~Search(arg.messages, out[k].msg)
  /\ (stack = <<>> /\ Len(results) = call /\ call >= 1 /\ results[call].exc = "none")
     => \A i \in 1..Len(doc) :
          (doc[i].k = "title"
           /\ ~(arg.messages # "" /\ Search(arg.messages, TitleWarningLine(i))))
          => \E k \in 1..Len(out) :
               out[k].origin = "native" /\ LineAndMessage(<<out[k]>>) = <<TitleWarning(i)>>
  /\ conv # <<>> =>
       \A j \in 1..Len(conv[Len(conv)].diags) :
         \E k \in 1..Len(out) : LineAndMessage(<<out[k]>>) = <<conv[Len(conv)].diags[j]>>

\* With a regular expression that matches both the title warning and the
\* python checker's message, check() has returned the checker's diagnostic
\* alone.
C6_Witness ==
  /\ stack = <<>> /\ Len(results) = call /\ call >= 1
  /\ results[call].exc = "none"
  /\ arg.messages # ""
  /\ \E i \in 1..Len(doc) :
       doc[i].k = "title" /\ Search(arg.messages, TitleWarningLine(i))
  /\ Len(out) = 1 /\ out[1].origin = "checker" /\ Search(arg.messages, out[1].msg)

\* A directive comment whose text does not hold exactly one "=".
Malformed(b) ==
  b.k = "comment" /\ Cardinality({j \in 1..Len(b.text) : b.text[j] = "="}) # 1

\* The positions in out of the diagnostics of the document's own scan.
DirectiveDiagnostics ==
  {k \in 1..Len(out) : out[k].origin = "directive" /\ out[k].region = <<>>}

\* C7: a malformed directive is not raised to the caller of check(). For
\* the malformed directive the scan meets (the first of the text), check()
\* yields exactly one diagnostic, 'Expected "key=value" syntax' at the
\* directive's own line, and the rest of the check proceeds: the parser
\* runs, the code regions are visited and their checkers are invoked.
C7_MalformedDirectiveReported ==
  /\ \A r \in 1..Len(results) : results[r].exc # "Error"
  /\ (stack = <<>> /\ Len(results) = call /\ call >= 1
      /\ \E i \in 1..Len(doc) : Malformed(doc[i]))
     => LET i == CHOOSE i \in 1..Len(doc) :
                   Malformed(doc[i]) /\ \A j \in 1..(i - 1) : ~Malformed(doc[j])
        IN /\ Cardinality(DirectiveDiagnostics) = 1
           /\ \A k \in DirectiveDiagnostics :
                /\ out[k].line = Offset(doc, i) + 1
                /\ out[k].msg = <<"Expected", " ", "\"key=value\"", " ", "syntax">>
           /\ results[call].exc = "none" =>
                /\ \A j \in 1..Len(doc) :
                     (doc[j].k \in {"code", "doctest"}
                      /\ ~Contains(arg.directives, doc[j].dir))
                     => \E t \in 1..Len(trace) :
                          trace[t].call = call /\ trace[t].region = <<j>>
                /\ \A t \in 1..Len(trace) :
                     (trace[t].call = call /\ trace[t].kinds = <<"python">>
                      /\ Invalid(trace[t]) /\ trace[t].b.hasline)
                     => \E k \in 1..Len(out) : out[k].region = trace[t].region

\* check() has returned for a document with a malformed directive followed
\* by an invalid python block: it has yielded the directive's diagnostic and
\* the checker's.
C7_Witness ==
  /\ stack = <<>> /\ Len(results) = call /\ call >= 1
  /\ results[call].exc = "none"
  /\ Len(doc) = 2 /\ Malformed(doc[1])
  /\ Len(out) = 2 /\ out[1].origin = "directive" /\ out[1].line = 1
  /\ out[2].origin = "checker" /\ out[2].region = <<2>>

\* A directive comment "key=value" whose key is not ignore-language.
OtherKey(b) ==
  /\ b.k = "comment"
  /\ Cardinality({j \in 1..Len(b.text) : b.text[j] = "="}) = 1
  /\ SubSeq(Strip(b.text), 1, IndexOf(Strip(b.text), "=") - 1) # <<"ignore-language">>

\* The document holds directive comments of other keys only, and no
\* nested document.
OnlyOtherKeys(d) ==
  /\ \E i \in 1..Len(d) : OtherKey(d[i])
  /\ \A i \in 1..Len(d) : d[i].k = "comment" => OtherKey(d[i])
  /\ \A i \in 1..Len(d) : d[i].inner = <<>>

\* C8 as stated: a directive comment "key=value" whose key is not
\* ignore-language produces a diagnostic that carries its line number.
C8_OtherKeyRejected ==
  (stack = <<>> /\ Len(results) = call /\ call >= 1)
  => \A i \in 1..Len(doc) :
       OtherKey(doc[i]) => \E k \in 1..Len(out) : out[k].line = Offset(doc, i) + 1

\* C8, amended: a directive comment "key=value" whose key is not
\* ignore-language is passed over silently: the scan yields no diagnostic
\* for it and takes no language from it.
C8_OtherKeyPassedOver ==
  /\ \A i \in 1..Len(doc) :
       OtherKey(doc[i])
       => \A k \in DirectiveDiagnostics : out[k].line # Offset(doc, i) + 1
  /\ OnlyOtherKeys(doc)
     => /\ DirectiveDiagnostics = {}
        /\ \A j \in 1..Len(ignore.languages) :
             ignore.languages[j] = None \/ Contains(arg.languages, ignore.languages[j])

\* check() has returned for a document that holds a comment of another key
\* and an invalid python block: its only diagnostic is the checker's.
C8_Witness ==
  /\ stack = <<>> /\ Len(results) = call /\ call >= 1
  /\ results[call].exc = "none"
  /\ Len(doc) = 2 /\ OtherKey(doc[1])
  /\ Len(out) = 1 /\ out[1].origin = "checker" /\ out[1].region = <<2>>

\* C9: a line of a tool's output or of the parser's warning stream that
\* cannot be split into its line and message fields (wrong prefix, line
\* field not a number, too few fields) is discarded: the loop over the
\* warning stream raises nothing, and no check() ends by an exception of
\* the message parsing.
C9_MalformedLinesDiscarded ==
  /\ (stack # <<>> /\ Top.phase = "native")
     => native_loop(StripText(Top.sio), Top.filename, ignore.messages, Top.path).exc
        = "none"
  /\ \A r \in 1..Len(results) : results[r].exc \in Faults \cup {"none"}

\* C10: two calls of check() on the same text with the same ignore
\* configuration, the second with the dictionary of the first or with
\* another of the same content, yield the same diagnostics.
C10_Idempotent ==
  Len(results) = 2 => results[1] = results[2]

\* The nearest non-blank line before line a of text t, 0 when there is none.
PrecedingNonBlank(t, a) ==
  LET before == {p \in 1..(a - 1) : NonBlank(t[p])}
  IN IF before = {} THEN 0 ELSE CHOOSE p \in before : \A q \in before : q <= p

\* C11: in the generic regime, for every text, fragment length and anchor
\* line of the text, beginning_of_code_block returns a value: anchor -
\* length + 1 when the line at the anchor is not blank; otherwise the
\* position of the nearest preceding non-blank line minus the length.
C11_ResolverAsStated ==
  resolver.pc \in {"returned", "raised"} =>
    /\ resolver.pc = "returned"
    /\ resolver.val =
         IF NonBlank(resolver.lines[resolver.line_number])
         THEN resolver.line_number - resolver.code_block_length + 1
         ELSE PrecedingNonBlank(resolver.lines, resolver.line_number)
              - resolver.code_block_length

\* The processes of the checkers of frame f that have been invoked.
Invoked(f) ==
  {f.checkers[i].proc : i \in {j \in 1..Len(f.checkers) :
                                 j < f.ci /\ f.checkers[j].proc # 0}}

\* C12: each subprocess checker has one process and one temporary file;
\* when its invocation has returned the process is reaped and the file is
\* deleted, and when check() has finished, normally or not, no process is
\* left unreaped and no file is left present.
C12_HandlesReleased ==
  /\ Len(tmp) = Len(procs)
  /\ \A d \in 1..Len(stack) : \A p \in Invoked(stack[d]) :
       procs[p] = "reaped" /\ tmp[p] = "deleted"
  /\ (stack = <<>> /\ Len(results) = call)
     => \A p \in 1..Len(procs) : procs[p] = "reaped" /\ tmp[p] = "deleted"

\* The place of a diagnostic of the top-level check() among its three
\* sources: the directive scan, the Deferred Checker of block n (with all a
\* nested check yields through it), the warning stream.
Rank(d) ==
  IF d.region # <<>> THEN d.region[1]
  ELSE IF d.origin = "directive" THEN 0 ELSE Len(doc) + 1

\* C13: in every running check() no Deferred Checker has been invoked while
\* the tree is still traversed, the checkers are invoked one by one from the
\* first registered to the last, all have been invoked when the warning
\* stream is read, and the diagnostics are yielded in the order of
\* registration of their checkers, the parser's diagnostics last.
C13_DeferredAfterTraversalInOrder ==
  /\ [](/\ \A d \in 1..Len(stack) :
             /\ stack[d].phase \in {"scan", "parse", "walk"}
                  => stack[d].ci = 1 /\ stack[d].ni <= Len(stack[d].src) + 1
             /\ stack[d].phase = "checkers"
                  => /\ stack[d].ni = Len(stack[d].src) + 1
                     /\ stack[d].ci \in 1..Len(stack[d].checkers)
             /\ stack[d].phase = "native"
                  => stack[d].ci = Len(stack[d].checkers) + 1
             /\ \A i, j \in 1..Len(stack[d].checkers) :
                  i < j => stack[d].checkers[i].blk < stack[d].checkers[j].blk
        /\ \A i, j \in 1..Len(out) : i < j => Rank(out[i]) <= Rank(out[j]))
  /\ [][\A d \in 1..Len(stack) :
          (d <= Len(stack') /\ stack[d].phase \in {"checkers", "native"})
            => /\ stack'[d].checkers = stack[d].checkers
               /\ stack'[d].ci \in {stack[d].ci, stack[d].ci + 1}]_vars

\* A check() has ended in which the diagnostic of a checker, on a later
\* line, is followed by a diagnostic of the parser on an earlier line.
C13_Witness ==
  /\ stack = <<>> /\ call = 1 /\ Len(results) = 1 /\ results[1].exc = "none"
  /\ Len(out) = 2 /\ out[1].origin = "checker" /\ out[2].origin = "native"
  /\ out[2].line < out[1].line

\* The processes of the checkers of frame f.
ProcsOf(f) ==
  {f.checkers[i].proc : i \in {j \in 1..Len(f.checkers) : f.checkers[j].proc # 0}}

\* In every running check(): each bash, c or cpp checker has a process of
\* its own, started when the checker was registered; the processes of the
\* checkers invoked are reaped, the others are not waited for.
StartedAtRegistration ==
  \A d \in 1..Len(stack) :
    LET f == stack[d]
    IN /\ \A i \in 1..Len(f.checkers) :
            /\ f.checkers[i].kind \in SubprocessKinds <=> f.checkers[i].proc # 0
            /\ f.checkers[i].proc <= Len(procs)
            /\ \A j \in 1..Len(f.checkers) :
                 (i # j /\ f.checkers[i].proc # 0)
                   => f.checkers[i].proc # f.checkers[j].proc
       /\ \A p \in ProcsOf(f) : p \in Invoked(f) <=> procs[p] = "reaped"

\* A step that starts a process starts one, running, and waits for none; a
\* step that reaps a process is the invocation of its checker, the next of
\* the innermost check().
WaitedAtInvocation ==
  /\ Len(procs') >= Len(procs)
  /\ Len(procs') > Len(procs)
       => /\ Len(procs') = Len(procs) + 1
          /\ procs'[Len(procs')] = "running"
          /\ SubSeq(procs', 1, Len(procs)) = procs
          /\ stack # <<>> /\ Top.phase = "walk"
  /\ \A p \in 1..Len(procs) :
       (procs'[p] = "reaped" /\ procs[p] # "reaped")
         => /\ stack # <<>> /\ Top.phase = "checkers"
            /\ Top.checkers[Top.ci].proc = p
            /\ procs[p] = "exited"

\* C14 (within one check()): a process is started, without waiting, when its
\* region is registered during the traversal, and is waited for only when
\* its Deferred Checker is invoked; all processes of one check() are started
\* before any of them is waited for, and they are reaped one at a time in
\* the order of registration.
C14_StartedAtRegistrationWaitedAtInvocation ==
  /\ []StartedAtRegistration
  /\ [][WaitedAtInvocation]_vars
  /\ [][(stack # <<>> /\ Len(procs') > Len(procs))
          => \A p \in ProcsOf(Top) : procs[p] # "reaped"]_vars

\* C14 (of one document): as above, and no process is started in a call of
\* check() on a document, the checks of its nested fragments included, once
\* a process of that call has been waited for.
C14_AllStartedBeforeAnyAwaited ==
  /\ []StartedAtRegistration
  /\ [][WaitedAtInvocation]_vars
  /\ [][(stack # <<>> /\ Len(procs') > Len(procs))
          => \A d \in 1..Len(stack) : \A p \in ProcsOf(stack[d]) :
               procs[p] # "reaped"]_vars

\* Two processes of one check() run at once, none has been waited for, and
\* the traversal is over.
C14_Witness ==
  /\ Len(stack) = 1 /\ Top.phase = "checkers" /\ Top.ci = 1
  /\ Len(Top.checkers) = 2 /\ ProcsOf(Top) = {1, 2}
  /\ procs = <<"running", "running">>

\* The name of the i-th file of the command line.
FileName(i) == IF i = 1 THEN TopFilename ELSE "G"

\* C15: when main() has returned from a run of several files of which one
\* raised an OSError or a UnicodeError, the status is 1, one failure message
\* is printed, and every diagnostic of every file that was checked without
\* a fault is printed.
C15_OtherFilesResultsKept ==
  (pc = "returned" /\ Len(files) > 1
     /\ \E i \in 1..Len(files) : files[i].exc \in Faults)
  => /\ status = 1
     /\ Cardinality({k \in 1..Len(printed) : printed[k] \in {<<e>> : e \in Faults}}) = 1
     /\ \A i \in 1..Len(files) :
          files[i].exc = "none"
            => \A k \in 1..Len(files[i].out) :
                 \E m \in 1..Len(printed) :
                   printed[m] = Message(FileName(i), files[i].out[k])

\* The most processes a run starts: one for each block of a call.
MaxProcs == 2 * MaxBlocks

Running(p) == p <= Len(procs) /\ procs[p] = "running"

\* The call of check() in which process p was started.
OwnerCall(p) ==
  LET k == CHOOSE i \in 1..Len(trace) :
             /\ trace[i].launched
             /\ Cardinality({j \in 1..i : trace[j].launched}) = p
  IN trace[k].call

\* The call that started p has given its caller all its diagnostics.
Produced(p) ==
  /\ p <= Len(procs)
  /\ Len(results) >= OwnerCall(p)
  /\ results[OwnerCall(p)].exc = "none"

\* The innermost check() is at the invocation of the checker of process p.
Awaiting(p) ==
  stack # <<>> /\ Top.phase = "checkers" /\ Top.checkers[Top.ci].proc = p

\* C16: if every process started exits, every check() begun ends and main()
\* ends; if a process never exits, the invocation of its checker, once
\* begun, never ends, and the check() that started the process never gives
\* its result.
C16_NoTimeout ==
  /\ (\A p \in 1..MaxProcs : []<>(~Running(p)))
       => /\ [](stack # <<>> => <>(stack = <<>>))
          /\ [](mode = "cli" => <>(pc # "run"))
  /\ \A p \in 1..MaxProcs :
       <>[]Running(p)
         => /\ [](Awaiting(p) => []Awaiting(p))
            /\ []~Produced(p)

\* The check() waits for a process that is still running, with a second
\* checker registered after it.
C16_Witness ==
  /\ Len(stack) = 1 /\ Awaiting(1) /\ Running(1) /\ Len(Top.checkers) = 2

\* The languages of an ignore dictionary (None is no language).
Languages(ig) == {ig.languages[i] : i \in 1..Len(ig.languages)} \ {None}

\* Every region of the first call whose language has a checker and is not
\* in the effective ignore set of its check() was given a checker (a
\* fragment that starts with a prompt goes by the doctest rule).
UnignoredRegionsChecked ==
  \A i \in 1..Len(trace) :
    (trace[i].call = 1 /\ ~trace[i].ignored
       /\ trace[i].lang \in {"python", "bash"} /\ trace[i].b.res # "notool"
       /\ ~trace[i].b.prompt)
      => trace[i].kinds # <<>>

\* C17: from the start of the traversal of a document to the end of its
\* check(), the nested checks included, the ignored languages of the
\* dictionary do not change, and every region of the document and of its
\* nested fragments that is not ignored by the caller, by its own text or
\* by an enclosing text is checked.
C17_IgnoreSetReadOnly ==
  /\ [][(stack # <<>> /\ stack' # <<>> /\ stack[1].phase \notin {"scan", "parse"})
          => Languages(ignore') = Languages(ignore)]_vars
  /\ []UnignoredRegionsChecked

\* The directives the blocks of a document, nested fragments included, use.
RECURSIVE UsedDirectives(_)
UsedDirectives(d) ==
  IF d = <<>> THEN {}
  ELSE (IF Head(d).dir = "" THEN {} ELSE {Head(d).dir})
       \cup UsedDirectives(Head(d).inner) \cup UsedDirectives(Tail(d))

\* The registry of a process that has checked no other file, when it parses
\* a file of configuration a.
FreshRegistry(a) ==
  register_code_directive(
    ignore_directives_and_roles([d \in RegistryNames |-> "native"], a.directives),
    a.directives)

\* C18: while a file is parsed and traversed, every directive it uses is
\* registered as in a process that has checked no other file; and when the
\* check of a file with a custom directive that its configuration does not
\* ignore has ended, the diagnostic of the unknown directive is among its
\* diagnostics.
C18_CrossFileIsolation ==
  /\ (stack # <<>> /\ stack[1].phase # "scan")
       => \A d \in UsedDirectives(doc) : registry[d] = FreshRegistry(arg)[d]
  /\ (stack = <<>> /\ Len(results) = 1 /\ results[1].exc = "none")
       => \A i \in 1..Len(doc) :
            (doc[i].k = "directive" /\ ~Contains(arg.directives, doc[i].dir))
              => \E k \in 1..Len(out) :
                   /\ out[k].origin = "native" /\ out[k].region = <<>>
                   /\ out[k].line = Offset(doc, i) + 1

\* The block of the first malformed directive of the document, one past the
\* last block when it has none.
FirstMalformed ==
  LET bad == {i \in 1..Len(doc) : Malformed(doc[i])}
  IN IF bad = {} THEN Len(doc) + 1 ELSE CHOOSE i \in bad : \A j \in bad : i <= j

\* The languages the directives of the blocks from..to of the document name,
\* each directive read on its own.
NamedBy(from, to) ==
  UNION {LET langs == find_ignored_languages(RenderBlock(doc[i])).langs
         IN {langs[j] : j \in 1..Len(langs)} :
           i \in {n \in from..to : doc[n].k = "comment" /\ ~Malformed(doc[n])}}

\* C19: in a document with a malformed directive, a region whose language
\* an ignore-language directive before the first malformed directive names
\* is given no checker; a region whose language only directives after it
\* name is checked all the same; and each check() yields at most one
\* malformed-directive diagnostic.
C19_PartialDirectiveScan ==
  FirstMalformed <= Len(doc) =>
    /\ \A i \in 1..Len(trace) :
         (trace[i].call = 1 /\ Len(trace[i].region) = 1) =>
           /\ trace[i].lang \in NamedBy(1, FirstMalformed - 1)
                => trace[i].kinds = <<>> /\ ~trace[i].launched
           /\ (/\ trace[i].lang \in NamedBy(FirstMalformed + 1, Len(doc))
               /\ trace[i].lang \notin NamedBy(1, FirstMalformed - 1)
               /\ ~Contains(arg.languages, trace[i].lang)
               /\ trace[i].lang \in {"python", "bash"})
                => trace[i].kinds # <<>>
    /\ \A j, k \in 1..Len(out) :
         (out[j].origin = "directive" /\ out[k].origin = "directive"
            /\ out[j].region = out[k].region) => j = k

\* The check of a document has ended in which bash is ignored before the
\* malformed directive and python after it: the bash region was given no
\* checker, the python region was checked, one diagnostic names the
\* malformed directive.
C19_Witness ==
  /\ stack = <<>> /\ call = 1 /\ Len(results) = 1 /\ results[1].exc = "none"
  /\ Len(doc) = 5 /\ FirstMalformed = 2
  /\ "bash" \in NamedBy(1, 1) /\ "python" \in NamedBy(3, 5)
  /\ Len(trace) = 2 /\ trace[1].kinds = <<>> /\ trace[2].kinds = <<"python">>
  /\ Len(out) = 2 /\ out[1].origin = "directive" /\ out[1].line = 3
  /\ out[2].origin = "checker" /\ out[2].region = <<5>>
====
